---- MODULE Spec2Model ----
(***************************************************************************)
(* Model of the notebook FE06.4_Adding_a_category_to_capture_NA.ipynb:     *)
(* impute_na (a derived column variable+'_NA' in which missing values are  *)
(* replaced by the label 'Missing'), the label-encoding loop that turns    *)
(* the derived columns into integers, and the cell that fits a linear      *)
(* regression on them and prints the mean squared error of both            *)
(* partitions.                                                             *)
(*                                                                         *)
(* A data frame is a record [index, cols]: index is the sequence of row    *)
(* labels, cols maps each column name to the sequence of its cells, in row *)
(* order.  A cell is a record [kind, s, n]: a string, the missing-value    *)
(* marker NaN, or a number.                                                *)
(***************************************************************************)
EXTENDS Integers, Sequences, FiniteSets, TLC

VARIABLES
    X_train,      \* the training data frame (mutated in place)
    X_test,       \* the test data frame (mutated in place)
    raw_train,    \* X_train as train_test_split returned it
    raw_test,     \* X_test as train_test_split returned it
    calls,        \* the variables impute_na was called with, in call order
    encoded,      \* the columns the encoding loop has gone through, in order
    labels_dict,  \* the mapping built by the last iteration of the encoding loop
    linreg,       \* the regression: unfitted, or its fitted coefficients
    printed,      \* the mean squared errors printed so far, in order
    pc,           \* "impute", "encode", "done" or "failed"
    err           \* "none", or the exception that ended the run

vars == <<X_train, X_test, raw_train, raw_test, calls, encoded, labels_dict,
          linreg, printed, pc, err>>

(***************************************************************************)
(* Bounds of the model.                                                    *)
(***************************************************************************)
\* the cells (rows x columns) of the two raw data frames together
MaxCells == 4
\* the number of impute_na calls of one run
MaxCalls == 2

(***************************************************************************)
(* Cells.                                                                  *)
(***************************************************************************)
Str(s) == [kind |-> "str", s |-> s, n |-> 0]
Num(i) == [kind |-> "num", s |-> "", n |-> i]
NaN == [kind |-> "nan", s |-> "", n |-> 0]

\* the label impute_na writes where a value is missing
Missing == Str("Missing")

\* pandas' isnull on one cell
isnull(x) == x.kind = "nan"

\* the column names of the raw data and the names impute_na is called with
RawNames == {"q", "g", "q_NA"}

\* the values a raw column may hold
RawValues(c) ==
    IF c = "q" THEN {Str("Gd"), Str("TA"), Missing, NaN}
    ELSE {Str("TA"), NaN}

\* the row labels train_test_split leaves on the two partitions (shuffled)
TrainLabels == <<64, 682, 960, 1384, 1100, 1416>>
TestLabels == <<529, 491, 459, 279, 655, 1013>>

(***************************************************************************)
(* Data frames.                                                            *)
(***************************************************************************)
Columns(df) == DOMAIN df.cols

\* the values of a column
Range(values) == {values[i] : i \in 1..Len(values)}

NRows(df) == Len(df.index)

\* Mutant of SetColumn: an existing column is kept as it is.
SetColumnKeep(df, name, values) ==
    [df EXCEPT !.cols = [c \in Columns(df) \cup {name} |->
                            IF c \in Columns(df) THEN df.cols[c] ELSE values]]

\* df[name] = values: a new column, or the existing one overwritten
SetColumn(df, name, values) ==
    [df EXCEPT !.cols = [c \in Columns(df) \cup {name} |->
                            IF c = name THEN values ELSE df.cols[c]]]

\* np.where(cond, label, values): label where cond holds, else the value
np_where(cond, label, values) ==
    [i \in 1..Len(values) |-> IF cond[i] THEN label ELSE values[i]]

\* Series.isnull()
IsNullColumn(values) == [i \in 1..Len(values) |-> isnull(values[i])]

\* Mutant of Derived: the imputed values are written back into the column itself.
DerivedInPlace(variable) == variable

\* Mutant of Derived: one hard-coded name for every derived column.
DerivedFixedName(variable) == "q_NA"

\* variable + '_NA'
Derived(variable) == variable \o "_NA"

\* Mutant of ImputedColumn: the column is copied, nothing is replaced.
ImputedColumnCopy(df, variable) == df.cols[variable]

\* Mutant of ImputedColumn: the two branches of np.where are swapped.
ImputedColumnSwapped(df, variable) ==
    [i \in 1..Len(df.cols[variable]) |->
        IF isnull(df.cols[variable][i]) THEN df.cols[variable][i] ELSE Missing]

\* Mutant of ImputedColumn: the test for missing values is taken on the
\* derived column when the frame already has one.
ImputedColumnStale(df, variable) ==
    LET tested == IF Derived(variable) \in Columns(df)
                  THEN df.cols[Derived(variable)] ELSE df.cols[variable]
    IN np_where(IsNullColumn(tested), Missing, df.cols[variable])

\* np.where(df[variable].isnull(), 'Missing', df[variable])
ImputedColumn(df, variable) ==
    np_where(IsNullColumn(df.cols[variable]), Missing, df.cols[variable])

\* Mutant of ImputeFrame: the rows with a missing value are dropped (dropna)
\* before the derived column is written.
ImputeFrameDropNa(df, variable) ==
    LET keep == SelectSeq([i \in 1..NRows(df) |-> i],
                          LAMBDA i : ~isnull(df.cols[variable][i]))
        kept == [index |-> [j \in 1..Len(keep) |-> df.index[keep[j]]],
                 cols |-> [c \in Columns(df) |->
                              [j \in 1..Len(keep) |-> df.cols[c][keep[j]]]]]
    IN SetColumn(kept, Derived(variable), kept.cols[variable])

\* one line of impute_na: df[variable+'_NA'] = np.where(...)
ImputeFrame(df, variable) ==
    SetColumn(df, Derived(variable), ImputedColumn(df, variable))

(***************************************************************************)
(* The raw data: every pair of frames with at most MaxCells cells.         *)
(***************************************************************************)
Frames(labels, k) ==
    UNION { UNION { { [index |-> SubSeq(labels, 1, n), cols |-> f] :
                        f \in [S -> UNION {[1..n -> RawValues(c)] : c \in S}] }
                    : n \in 0..(k \div Cardinality(S)) }
            : S \in (SUBSET RawNames) \ {{}} }

WellFormed(df) ==
    \A c \in Columns(df) :
        /\ Len(df.cols[c]) = NRows(df)
        /\ \A i \in 1..NRows(df) : df.cols[c][i] \in RawValues(c)

Cells(df) == NRows(df) * Cardinality(Columns(df))

Init ==
    /\ X_train \in {df \in Frames(TrainLabels, MaxCells) : WellFormed(df)}
    /\ X_test \in {df \in Frames(TestLabels, MaxCells - Cells(X_train)) : WellFormed(df)}
    /\ raw_train = X_train
    /\ raw_test = X_test
    /\ calls = <<>>
    /\ encoded = <<>>
    /\ labels_dict = <<>>
    /\ linreg = [fitted |-> FALSE, intercept |-> 0, coef |-> <<>>]
    /\ printed = <<>>
    /\ pc = "impute"
    /\ err = "none"

(***************************************************************************)
(* impute_na(df_train, df_test, variable)                                  *)
(*     df_train[variable+'_NA'] = np.where(df_train[variable].isnull(),    *)
(*                                         'Missing', df_train[variable])  *)
(*     df_test[variable+'_NA'] = np.where(df_test[variable].isnull(),      *)
(*                                        'Missing', df_test[variable])    *)
(* The two lines act on a record [train, test, err]; a line does nothing   *)
(* once an exception is raised.                                            *)
(***************************************************************************)
Frame(train, test) == [train |-> train, test |-> test, err |-> "none"]

\* Mutant of LineTrain: a column that already holds the label is refused.
LineTrainStrict(st, variable) ==
    IF st.err # "none" THEN st
    ELSE IF variable \notin Columns(st.train) THEN [st EXCEPT !.err = "KeyError"]
    ELSE IF Missing \in Range(st.train.cols[variable])
         THEN [st EXCEPT !.err = "ValueError"]
    ELSE [st EXCEPT !.train = ImputeFrame(st.train, variable)]

\* the line that writes df_train: df_train[variable] raises KeyError when
\* the column is absent, before anything is written
LineTrain(st, variable) ==
    IF st.err # "none" THEN st
    ELSE IF variable \notin Columns(st.train) THEN [st EXCEPT !.err = "KeyError"]
    ELSE [st EXCEPT !.train = ImputeFrame(st.train, variable)]

\* Mutant of LineTest: a test frame without the column is skipped silently.
LineTestLenient(st, variable) ==
    IF st.err # "none" \/ variable \notin Columns(st.test) THEN st
    ELSE [st EXCEPT !.test = ImputeFrame(st.test, variable)]

\* the line that writes df_test
LineTest(st, variable) ==
    IF st.err # "none" THEN st
    ELSE IF variable \notin Columns(st.test) THEN [st EXCEPT !.err = "KeyError"]
    ELSE [st EXCEPT !.test = ImputeFrame(st.test, variable)]

\* Mutant of ImputeNa: the line that writes df_test runs first.
ImputeNaTestFirst(st, variable) == LineTrain(LineTest(st, variable), variable)

\* the whole call
ImputeNa(st, variable) == LineTest(LineTrain(st, variable), variable)

impute_na(variable) ==
    /\ pc = "impute"
    /\ Len(calls) < MaxCalls
    /\ calls' = Append(calls, variable)
    /\ \E st \in {ImputeNa(Frame(X_train, X_test), variable)} :
          /\ X_train' = st.train
          /\ X_test' = st.test
          /\ err' = st.err
          /\ pc' = IF st.err = "none" THEN pc ELSE "failed"
    /\ UNCHANGED <<raw_train, raw_test, encoded, labels_dict, linreg, printed>>

(***************************************************************************)
(* The label-encoding loop, one iteration per action:                      *)
(*   labels_dict = {k: i for i, k in enumerate(X_train[col].unique(), 0)}  *)
(*   X_train.loc[:, col] = X_train.loc[:, col].map(labels_dict)            *)
(*   X_test.loc[:, col] = X_test.loc[:, col].map(labels_dict)              *)
(***************************************************************************)
\* the number of iterations of the encoding loop in one run
MaxEncodes == 2

\* Mutant of unique: the distinct values in order of last appearance.
unique_last_seen(values) ==
    LET seen[i \in 0..Len(values)] ==
            IF i = 0 THEN <<>>
            ELSE Append(SelectSeq(seen[i - 1], LAMBDA x : x # values[i]), values[i])
    IN seen[Len(values)]

\* Series.unique(): the distinct values, in order of first appearance
unique(values) ==
    LET seen[i \in 0..Len(values)] ==
            IF i = 0 THEN <<>>
            ELSE IF values[i] \in Range(seen[i - 1]) THEN seen[i - 1]
                 ELSE Append(seen[i - 1], values[i])
    IN seen[Len(values)]

\* Mutant of enumerate_dict: the numbering starts at 1.
enumerate_dict_from_1(keys) ==
    [k \in Range(keys) |-> CHOOSE i \in 1..Len(keys) : keys[i] = k]

\* {k: i for i, k in enumerate(keys, 0)}
enumerate_dict(keys) ==
    [k \in Range(keys) |-> (CHOOSE i \in 1..Len(keys) : keys[i] = k) - 1]

\* Mutant of LabelsDict: 'Missing' is always given a number, after the labels
\* of the training rows.
LabelsDictWithMissing(df, col) ==
    enumerate_dict(unique(df.cols[col] \o <<Missing>>))

\* the mapping the loop builds for one column
LabelsDict(df, col) == enumerate_dict(unique(df.cols[col]))

\* Series.map(dict): the dict's value, NaN for a value that is no key
map(values, dict) ==
    [i \in 1..Len(values) |->
        IF values[i] \in DOMAIN dict THEN Num(dict[values[i]]) ELSE NaN]

\* df.loc[:, col] = df.loc[:, col].map(dict)
EncodeFrame(df, col, dict) == SetColumn(df, col, map(df.cols[col], dict))

\* the columns the loop may run over: the derived columns of the imputed variables
DerivedColumns == {Derived(calls[i]) : i \in 1..Len(calls)}

\* Mutant of EncodeStep: the mapping is built from the values of both
\* partitions, the training rows first.
EncodeStepFitAll(train, test, col) ==
    LET dict == enumerate_dict(unique(train.cols[col] \o test.cols[col]))
    IN [train |-> EncodeFrame(train, col, dict),
        test |-> EncodeFrame(test, col, dict),
        dict |-> dict]

\* Mutant of EncodeStep: each partition is encoded with a mapping of its own.
EncodeStepOwnLabels(train, test, col) ==
    [train |-> EncodeFrame(train, col, LabelsDict(train, col)),
     test |-> EncodeFrame(test, col, LabelsDict(test, col)),
     dict |-> LabelsDict(train, col)]

\* one iteration of the loop on the two frames: the frames and the mapping after it
EncodeStep(train, test, col) ==
    LET dict == LabelsDict(train, col)
    IN [train |-> EncodeFrame(train, col, dict),
        test |-> EncodeFrame(test, col, dict),
        dict |-> dict]

encode(col) ==
    /\ pc \in {"impute", "encode"}
    /\ col \in DerivedColumns
    /\ Len(encoded) < MaxEncodes
    /\ pc' = "encode"
    /\ encoded' = Append(encoded, col)
    /\ \E st \in {EncodeStep(X_train, X_test, col)} :
          /\ labels_dict' = st.dict
          /\ X_train' = st.train
          /\ X_test' = st.test
    /\ UNCHANGED <<raw_train, raw_test, calls, linreg, printed, err>>

(***************************************************************************)
(* The evaluation cell:                                                    *)
(*   linreg = LinearRegression()                                           *)
(*   linreg.fit(X_train[[...]], y_train)                                   *)
(*   pred = linreg.predict(X_train[[...]])                                 *)
(*   print('Linear Regression mse: {}'.format(                             *)
(*       mean_squared_error(y_train, pred)))                               *)
(*   pred = linreg.predict(X_test[[...]])                                  *)
(*   print('Linear Regression mse: {}'.format(                             *)
(*       mean_squared_error(y_test, pred)))                                *)
(* The feature columns are the derived columns, and the loop has encoded   *)
(* all of them.  The least-squares solve is the library's: the fit returns *)
(* some coefficients out of a bounded set of integers.  A mean is the pair *)
(* [num, den].                                                             *)
(***************************************************************************)
\* SalePrice of the rows of the two partitions, in row order
TrainPrices == <<2, 0, 1, 3, 1, 2>>
TestPrices == <<1, 3, 0, 2, 2, 1>>

y_train == SubSeq(TrainPrices, 1, NRows(X_train))
y_test == SubSeq(TestPrices, 1, NRows(X_test))

\* the values a fitted coefficient takes
Coefs == {0, 1}

\* the solutions of the solve the model draws from: no intercept and one
\* slope for all the features
Weights(features) ==
    {[fitted |-> TRUE, intercept |-> 0, coef |-> [c \in features |-> k]] :
        k \in Coefs}

RECURSIVE Sum(_, _)
Sum(f, S) ==
    IF S = {} THEN 0
    ELSE LET x == CHOOSE x \in S : TRUE IN f[x] + Sum(f, S \ {x})

\* the input validation of fit and predict: at least one row, and every
\* cell a finite number
check_array(df, features) ==
    IF NRows(df) = 0 THEN "ValueError"
    ELSE IF \E c \in features : \E r \in 1..NRows(df) : df.cols[c][r].kind # "num"
         THEN "ValueError"
         ELSE "none"

predict(model, df) ==
    [r \in 1..NRows(df) |->
        model.intercept
        + Sum([c \in DOMAIN model.coef |-> model.coef[c] * df.cols[c][r].n],
              DOMAIN model.coef)]

\* Mutant of mean_squared_error: the errors are averaged without being squared.
mean_error(y_true, y_pred) ==
    [num |-> Sum([r \in 1..Len(y_true) |-> y_pred[r] - y_true[r]], 1..Len(y_true)),
     den |-> Len(y_true)]

mean_squared_error(y_true, y_pred) ==
    [num |-> Sum([r \in 1..Len(y_true) |->
                     (y_pred[r] - y_true[r]) * (y_pred[r] - y_true[r])],
                 1..Len(y_true)),
     den |-> Len(y_true)]

\* The statements of the cell act on a record
\* [train, test, features, linreg, printed, err]; a statement does nothing
\* once an exception is raised.
Cell(train, test, features, model) ==
    [train |-> train, test |-> test, features |-> features, linreg |-> model,
     printed |-> <<>>, err |-> "none"]

\* linreg.fit(X_train[[...]], y_train), w being the solution of the solve
Fit(st, w) ==
    IF st.err # "none" THEN st
    ELSE IF check_array(st.train, st.features) # "none"
         THEN [st EXCEPT !.err = check_array(st.train, st.features)]
         ELSE [st EXCEPT !.linreg = w]

\* pred = linreg.predict(X_train[[...]]); print(mean_squared_error(y_train, pred))
ScoreTrain(st) ==
    IF st.err # "none" THEN st
    ELSE IF check_array(st.train, st.features) # "none"
         THEN [st EXCEPT !.err = check_array(st.train, st.features)]
         ELSE [st EXCEPT !.printed =
                  Append(@, mean_squared_error(SubSeq(TrainPrices, 1, NRows(st.train)),
                                               predict(st.linreg, st.train)))]

\* Mutant of ScoreTest: the second score is taken on the training partition
\* again.
ScoreTestOnTrain(st) == ScoreTrain(st)

\* Mutant of ScoreTest: a partition without rows is skipped.
ScoreTestSkipEmpty(st) ==
    IF st.err # "none" \/ NRows(st.test) = 0 THEN st
    ELSE IF check_array(st.test, st.features) # "none"
         THEN [st EXCEPT !.err = check_array(st.test, st.features)]
         ELSE [st EXCEPT !.printed =
                  Append(@, mean_squared_error(SubSeq(TestPrices, 1, NRows(st.test)),
                                               predict(st.linreg, st.test)))]

\* Mutant of ScoreTest: the cells without an index count as 0.
ScoreTestFillNa(st) ==
    LET filled == [st.test EXCEPT !.cols =
                      [c \in DOMAIN @ |->
                          [r \in DOMAIN @[c] |->
                              IF isnull(@[c][r]) THEN Num(0) ELSE @[c][r]]]]
    IN IF st.err # "none" THEN st
       ELSE IF check_array(filled, st.features) # "none"
            THEN [st EXCEPT !.err = check_array(filled, st.features)]
            ELSE [st EXCEPT !.printed =
                     Append(@, mean_squared_error(SubSeq(TestPrices, 1, NRows(filled)),
                                                  predict(st.linreg, filled)))]

\* pred = linreg.predict(X_test[[...]]); print(mean_squared_error(y_test, pred))
ScoreTest(st) ==
    IF st.err # "none" THEN st
    ELSE IF check_array(st.test, st.features) # "none"
         THEN [st EXCEPT !.err = check_array(st.test, st.features)]
         ELSE [st EXCEPT !.printed =
                  Append(@, mean_squared_error(SubSeq(TestPrices, 1, NRows(st.test)),
                                               predict(st.linreg, st.test)))]

EvaluateCell(st, w) == ScoreTest(ScoreTrain(Fit(st, w)))

evaluate ==
    /\ pc = "encode"
    /\ Range(encoded) = DerivedColumns
    /\ \E w \in Weights(Range(encoded)) :
          \E st \in {EvaluateCell(Cell(X_train, X_test, Range(encoded), linreg), w)} :
             /\ linreg' = st.linreg
             /\ printed' = st.printed
             /\ err' = st.err
             /\ pc' = IF st.err = "none" THEN "done" ELSE "failed"
    /\ UNCHANGED <<X_train, X_test, raw_train, raw_test, calls, encoded, labels_dict>>

Next ==
    \/ \E variable \in RawNames : impute_na(variable)
    \/ \E col \in DerivedColumns : encode(col)

\* impute_na and the encoding loop on any two frames
Spec == Init /\ [][Next]_vars

\* X_train and X_test are the two parts train_test_split makes of the data
\* frame read with cols_to_use: they have the same columns, none of them a
\* derived one
InitEval ==
    /\ Init
    /\ Columns(X_train) = Columns(X_test)
    /\ \A c \in RawNames : Derived(c) \notin Columns(X_train)

NextEval ==
    \/ \E variable \in RawNames : impute_na(variable)
    \/ \E col \in DerivedColumns : encode(col)
    \/ evaluate

\* the notebook from the split to the evaluation cell
SpecEval == InitEval /\ [][NextEval]_vars

(***************************************************************************)
(* Vocabulary of the properties.                                           *)
(***************************************************************************)
\* this step is a call impute_na(v)
Called(v) == calls' = Append(calls, v)

\* the first line of the call impute_na(v) of this step ran: X_train was written
WroteTrain(v) == Called(v) /\ v \in Columns(X_train)

\* both lines ran: the call returned
Returned(v) == Called(v) /\ v \in Columns(X_train) /\ v \in Columns(X_test)

\* the variables whose call wrote the training frame / both frames
ProcessedTrain == {v \in Range(calls) : v \in Columns(X_train)}
ProcessedBoth == {v \in ProcessedTrain : v \in Columns(X_test)}

\* the cells some column of the frame holds in row r
RowCells(df, r) == {df.cols[c][r] : c \in Columns(df)}

\* every cell of column d is a string: 'Missing', or a value row r of the raw frame held
Complete(df, raw, d) ==
    /\ d \in Columns(df)
    /\ Len(df.cols[d]) = NRows(df)
    /\ \A r \in 1..NRows(df) :
          /\ ~isnull(df.cols[d][r])
          /\ df.cols[d][r].kind = "str"
          /\ df.cols[d][r] = Missing \/ df.cols[d][r] \in RowCells(raw, r)

\* C1: Completeness.  Before the encoding starts, after any sequence of
\* impute_na calls, the derived column v+'_NA' of every processed variable v
\* holds no missing-value marker in any row of the training frame or of the
\* test frame: each value is the label 'Missing' or a category string of the
\* raw data.
C1_Completeness ==
    encoded = <<>> =>
        /\ \A v \in ProcessedTrain : Complete(X_train, raw_train, Derived(v))
        /\ \A v \in ProcessedBoth : Complete(X_test, raw_test, Derived(v))

\* a processed variable whose raw column had a missing value in both frames
C1_Witness ==
    /\ encoded = <<>>
    /\ pc = "impute"
    /\ \E v \in ProcessedBoth :
          /\ v \in Columns(raw_train) /\ NaN \in Range(raw_train.cols[v])
          /\ v \in Columns(raw_test) /\ NaN \in Range(raw_test.cols[v])
          /\ Missing \in Range(X_train.cols[Derived(v)])
          /\ Missing \in Range(X_test.cols[Derived(v)])

\* the derived column written by this step keeps the non-missing values of df
Preserves(df, after, v) ==
    \A r \in 1..NRows(df) :
        ~isnull(df.cols[v][r]) => after.cols[Derived(v)][r] = df.cols[v][r]

\* C2: Value preservation.  A call impute_na(v) gives the derived column
\* v+'_NA' the original value of column v in every row, of either frame,
\* whose original value is not the missing-value marker.
C2_ValuePreservation ==
    [][\A v \in RawNames :
          /\ WroteTrain(v) => Preserves(X_train, X_train', v)
          /\ Returned(v) => Preserves(X_test, X_test', v)]_vars

\* a call has returned on frames holding a category string in the column
C2_Witness ==
    /\ pc = "impute"
    /\ \E v \in ProcessedBoth :
          /\ \E r \in 1..NRows(X_train) :
                X_train.cols[v][r] = Str("Gd") /\ X_train.cols[Derived(v)][r] = Str("Gd")
          /\ \E r \in 1..NRows(X_test) :
                X_test.cols[v][r] = Str("TA") /\ X_test.cols[Derived(v)][r] = Str("TA")

\* the derived column written by this step holds 'Missing' where df has no value
FillsMissing(df, after, v) ==
    \A r \in 1..NRows(df) :
        isnull(df.cols[v][r]) => after.cols[Derived(v)][r] = Missing

\* C3: Sentinel correctness.  A call impute_na(v) gives the derived column
\* v+'_NA' the label 'Missing' in every row, of either frame, whose original
\* value in column v is the missing-value marker.
C3_SentinelCorrectness ==
    [][\A v \in RawNames :
          /\ WroteTrain(v) => FillsMissing(X_train, X_train', v)
          /\ Returned(v) => FillsMissing(X_test, X_test', v)]_vars

\* a call has returned on frames in which the column has a missing value
C3_Witness ==
    /\ pc = "impute"
    /\ \E v \in ProcessedBoth :
          /\ \E r \in 1..NRows(X_train) :
                isnull(X_train.cols[v][r]) /\ X_train.cols[Derived(v)][r] = Missing
          /\ \E r \in 1..NRows(X_test) :
                isnull(X_test.cols[v][r]) /\ X_test.cols[Derived(v)][r] = Missing

NCols(df) == Cardinality(Columns(df))

\* the frame has the same rows, in the same order, after the step
SameRows(df, after) ==
    /\ after.index = df.index
    /\ \A c \in Columns(after) : Len(after.cols[c]) = NRows(df)

\* the columns a write of v+'_NA' adds to the frame: none when it has one
Added(df, v) == IF Derived(v) \in Columns(df) THEN 0 ELSE 1

\* C4 as stated: every impute_na call that returns keeps the rows of both
\* frames and increases the column count of each frame by exactly one.
C4_Original ==
    [][\A v \in RawNames : Returned(v) =>
          /\ SameRows(X_train, X_train') /\ SameRows(X_test, X_test')
          /\ NCols(X_train') = NCols(X_train) + 1
          /\ NCols(X_test') = NCols(X_test) + 1]_vars

\* C4 (amended): every impute_na call keeps the row count and the row order
\* of both frames and drops no row; a line of the call that runs increases
\* the column count of its frame by one when the frame had no column named
\* v+'_NA', and leaves it unchanged when it had one (the column is
\* overwritten); a line that does not run leaves its frame as it was.
C4_RowColumnCount ==
    [][\A v \in RawNames : Called(v) =>
          /\ SameRows(X_train, X_train') /\ SameRows(X_test, X_test')
          /\ NCols(X_train') =
                NCols(X_train) + (IF WroteTrain(v) THEN Added(X_train, v) ELSE 0)
          /\ NCols(X_test') =
                NCols(X_test) + (IF Returned(v) THEN Added(X_test, v) ELSE 0)]_vars

\* a first call for v added a column to both frames, a second one added none
C4_Witness ==
    /\ pc = "impute"
    /\ Len(calls) = 2 /\ calls[1] = calls[2]
    /\ Derived(calls[1]) \notin Columns(raw_train) \cup Columns(raw_test)
    /\ NRows(X_train) >= 1 /\ NRows(X_test) >= 1
    /\ NCols(X_train) = NCols(raw_train) + 1
    /\ NCols(X_test) = NCols(raw_test) + 1

\* the step leaves column c of the frame as it was
Untouched(df, after, c) == c \in Columns(after) /\ after.cols[c] = df.cols[c]

\* C5 as stated (its frame part): a call for v leaves column v and every other
\* column already present unchanged in both frames.
C5_Original ==
    [][\A v \in RawNames : Called(v) =>
          /\ \A c \in Columns(X_train) : Untouched(X_train, X_train', c)
          /\ \A c \in Columns(X_test) : Untouched(X_test, X_test', c)]_vars

\* C5 (amended): a call for v leaves column v and every other column already
\* present unchanged in both frames, except a column already named v+'_NA',
\* which it overwrites; the derived columns of other variables are
\* untouched, and the only column a call can add to a frame is v+'_NA'.
C5_Frame ==
    [][\A v \in RawNames : Called(v) =>
          /\ \A c \in Columns(X_train) \ {Derived(v)} : Untouched(X_train, X_train', c)
          /\ \A c \in Columns(X_test) \ {Derived(v)} : Untouched(X_test, X_test', c)
          /\ WroteTrain(v) => Untouched(X_train, X_train', v)
          /\ Returned(v) => Untouched(X_test, X_test', v)
          /\ Columns(X_train') =
                Columns(X_train) \cup (IF WroteTrain(v) THEN {Derived(v)} ELSE {})
          /\ Columns(X_test') =
                Columns(X_test) \cup (IF Returned(v) THEN {Derived(v)} ELSE {})]_vars

\* two calls for different variables have returned: both derived columns are
\* there, the first one as the first call wrote it, beside the raw columns
C5_Witness ==
    /\ pc = "impute"
    /\ Len(calls) = 2 /\ calls[1] # calls[2]
    /\ Derived(calls[1]) # calls[2] /\ Derived(calls[2]) # calls[1]
    /\ \A i \in 1..2 :
          /\ Derived(calls[i]) \in Columns(X_train) \ Columns(raw_train)
          /\ Derived(calls[i]) \in Columns(X_test) \ Columns(raw_test)
          /\ X_train.cols[calls[i]] = raw_train.cols[calls[i]]
          /\ NaN \in Range(raw_train.cols[calls[i]])
    /\ X_train.cols[Derived(calls[1])] = ImputedColumn(raw_train, calls[1])

\* C6: A call impute_na(v) fails with the column-not-found exception (pandas
\* raises KeyError) whenever v is absent from the columns of the training
\* frame or of the test frame.
C6_ColumnNotFound ==
    [][\A v \in RawNames :
          (Called(v) /\ (v \notin Columns(X_train) \/ v \notin Columns(X_test)))
              => (err' = "KeyError" /\ pc' = "failed")]_vars

\* the last call failed on a column the training frame has and the test frame lacks
C6_Witness ==
    /\ pc = "failed" /\ err = "KeyError"
    /\ calls # <<>>
    /\ calls[Len(calls)] \in Columns(X_train) \ Columns(X_test)
    /\ NRows(X_train) >= 1 /\ NRows(X_test) >= 1

\* the derived column written by this step holds 'Missing' where df holds 'Missing'
KeepsLabel(df, after, v) ==
    /\ Derived(v) \in Columns(after)
    /\ \A r \in 1..NRows(df) :
          df.cols[v][r] = Missing => after.cols[Derived(v)][r] = Missing

\* C7: Totality.  A call impute_na(v) on frames that both have column v
\* returns without an exception whatever the column holds (category strings,
\* missing-value markers, the string 'Missing'), and a row whose value is
\* already 'Missing' gets the derived value 'Missing'.
C7_Totality ==
    [][\A v \in RawNames :
          (Called(v) /\ v \in Columns(X_train) /\ v \in Columns(X_test)) =>
              /\ err' = "none" /\ pc' = "impute"
              /\ KeepsLabel(X_train, X_train', v)
              /\ KeepsLabel(X_test, X_test', v)]_vars

\* a call has returned on a column holding a category, a missing value and
\* the string 'Missing' in the training frame, and 'Missing' in the test frame
C7_Witness ==
    /\ pc = "impute" /\ err = "none"
    /\ \E v \in ProcessedBoth :
          /\ {Str("Gd"), NaN, Missing} \subseteq Range(X_train.cols[v])
          /\ Missing \in Range(X_test.cols[v])
          /\ Derived(v) \in Columns(X_train) \cap Columns(X_test)
          /\ \A r \in 1..NRows(X_test) :
                X_test.cols[v][r] = Missing => X_test.cols[Derived(v)][r] = Missing

(***************************************************************************)
(* Two calls impute_na(a), impute_na(b) with their lines interleaved.      *)
(***************************************************************************)
\* one line of a call: <<"train", v>> or <<"test", v>>
RunLine(st, line) ==
    IF line[1] = "train" THEN LineTrain(st, line[2]) ELSE LineTest(st, line[2])

RunLines(st, lines) ==
    LET run[i \in 0..Len(lines)] ==
            IF i = 0 THEN st ELSE RunLine(run[i - 1], lines[i])
    IN run[Len(lines)]

\* the position of a line in a schedule
Position(lines, line) == CHOOSE i \in 1..Len(lines) : lines[i] = line

\* the schedules of the four lines that keep each call's own order: a then
\* b, b then a, and the four proper interleavings
Interleavings(a, b) ==
    LET all == {<<"train", a>>, <<"test", a>>, <<"train", b>>, <<"test", b>>}
    IN {lines \in [1..4 -> all] :
           /\ Range(lines) = all
           /\ Position(lines, <<"train", a>>) < Position(lines, <<"test", a>>)
           /\ Position(lines, <<"train", b>>) < Position(lines, <<"test", b>>)}

\* the schedule ends without exception with the derived columns of a and b
\* that the frames of the state hold
SameDerived(st, a, b) ==
    /\ st.err = "none"
    /\ \A d \in {Derived(a), Derived(b)} :
          /\ d \in Columns(st.train) /\ st.train.cols[d] = X_train.cols[d]
          /\ d \in Columns(st.test) /\ st.test.cols[d] = X_test.cols[d]

\* the run so far is impute_na(a) then impute_na(b) for different a and b
TwoCalls == pc = "impute" /\ Len(calls) = 2 /\ calls[1] # calls[2]

\* neither variable is the derived column of the other
Independent(a, b) == Derived(a) # b /\ Derived(b) # a

\* C8 as stated: for any two different columns a and b of the raw frames,
\* every order and every interleaving of the two calls on the raw frames ends
\* with the derived columns that the run impute_na(a); impute_na(b) has
\* produced.
C8_Original ==
    (TwoCalls /\ {calls[1], calls[2]} \subseteq Columns(raw_train) \cap Columns(raw_test)) =>
        \A lines \in Interleavings(calls[1], calls[2]) :
            SameDerived(RunLines(Frame(raw_train, raw_test), lines), calls[1], calls[2])

\* C8 (amended): for any two different column names a and b neither of which
\* is the derived name of the other (a+'_NA' # b and b+'_NA' # a), calling
\* impute_na for a then b, for b then a, or with the lines of the two calls
\* interleaved, ends with the same derived columns in both frames.
C8_OrderIndependence ==
    (TwoCalls /\ Independent(calls[1], calls[2])) =>
        \A lines \in Interleavings(calls[1], calls[2]) :
            SameDerived(RunLines(Frame(raw_train, raw_test), lines), calls[1], calls[2])

\* two independent calls have returned and wrote different derived columns
C8_Witness ==
    /\ TwoCalls /\ Independent(calls[1], calls[2])
    /\ NRows(X_train) >= 1 /\ NRows(X_test) >= 1
    /\ X_train.cols[Derived(calls[1])] # X_train.cols[Derived(calls[2])]
    /\ X_test.cols[Derived(calls[1])] # X_test.cols[Derived(calls[2])]
    /\ Cardinality(Interleavings(calls[1], calls[2])) = 6

\* v was imputed before and no call since then has written column v
ImputedBefore(v) ==
    \E i \in 1..Len(calls) :
        /\ calls[i] = v
        /\ \A j \in (i + 1)..Len(calls) : Derived(calls[j]) # v

\* C9: Idempotence of re-derivation.  A call impute_na(v) made again while
\* column v still holds the values of the earlier call leaves the derived
\* column v+'_NA' of both frames exactly as the earlier call wrote it.
C9_Idempotence ==
    [][\A v \in RawNames : (Returned(v) /\ ImputedBefore(v)) =>
          /\ Untouched(X_train, X_train', Derived(v))
          /\ Untouched(X_test, X_test', Derived(v))]_vars

\* impute_na has returned twice for a column with missing values
C9_Witness ==
    /\ pc = "impute"
    /\ Len(calls) = 2 /\ calls[1] = calls[2]
    /\ NaN \in Range(X_train.cols[calls[1]]) /\ NaN \in Range(X_test.cols[calls[1]])
    /\ X_train.cols[Derived(calls[1])] = ImputedColumn(raw_train, calls[1])
    /\ X_test.cols[Derived(calls[1])] = ImputedColumn(raw_test, calls[1])

\* this step is an iteration of the encoding loop for column col
Encoded(col) == encoded' = Append(encoded, col)

\* the row of the first appearance of value x in the column
FirstSeen(values, x) == CHOOSE i \in 1..Len(values) :
                            values[i] = x /\ \A j \in 1..(i - 1) : values[j] # x

\* C10: Category label mapping.  The mapping an iteration of the encoding
\* loop builds for a column has as keys exactly the distinct values of the
\* training frame's column (so 'Missing' when a training row holds it, and
\* no value that only the test frame holds), sends them to distinct
\* integers 0, 1, ..., and numbers them in the order of their first
\* appearance in the training rows.
C10_LabelMapping ==
    [][\A col \in DerivedColumns : Encoded(col) =>
          LET values == X_train.cols[col]
              dict == labels_dict'
          IN /\ DOMAIN dict = Range(values)
             /\ \A k \in DOMAIN dict : dict[k] \in 0..(Cardinality(DOMAIN dict) - 1)
             /\ \A k1, k2 \in DOMAIN dict : k1 # k2 => dict[k1] # dict[k2]
             /\ \A k1, k2 \in DOMAIN dict :
                   dict[k1] < dict[k2] <=> FirstSeen(values, k1) < FirstSeen(values, k2)]_vars

\* the loop has encoded a column in which the training rows hold a category,
\* then a missing value, then the category again, and the test row a
\* category the training rows lack: 'Missing' is numbered 1 and the test
\* value is no key
C10_Witness ==
    /\ pc = "encode" /\ Len(encoded) = 1
    /\ DOMAIN labels_dict = {Str("Gd"), Missing}
    /\ labels_dict[Str("Gd")] = 0 /\ labels_dict[Missing] = 1
    /\ X_train.cols[encoded[1]] = <<Num(0), Num(1), Num(0)>>
    /\ raw_test.cols["q"] = <<Str("TA")>>
    /\ Str("TA") \notin DOMAIN labels_dict

(***************************************************************************)
(* The numbering of the labels.                                            *)
(***************************************************************************)
\* the numbers the mapping gives out
Indices(dict) == {dict[k] : k \in DOMAIN dict}

\* C11, as the comment above the loop states it: the loop numbers the labels
\* of a column from 0 to n, n being the number of different labels of the
\* column in the training frame.
C11_Original ==
    [][\A col \in DerivedColumns : Encoded(col) =>
          LET n == Cardinality(Range(X_train.cols[col]))
          IN n > 0 => 0 \in Indices(labels_dict') /\ n \in Indices(labels_dict')]_vars

\* C12: the mapping built from the training frame is applied unchanged to
\* both frames.  After an iteration of the loop every training row, and every
\* test row whose value occurs in the training column, holds exactly the
\* number the mapping gives its value; so equal values of the two frames get
\* equal numbers.
C12_SameMapping ==
    [][\A col \in DerivedColumns : Encoded(col) =>
          /\ \A r \in 1..NRows(X_train) :
                /\ X_train.cols[col][r] \in DOMAIN labels_dict'
                /\ X_train'.cols[col][r] = Num(labels_dict'[X_train.cols[col][r]])
          /\ \A r \in 1..NRows(X_test) :
                X_test.cols[col][r] \in Range(X_train.cols[col]) =>
                   X_test'.cols[col][r] = Num(labels_dict'[X_test.cols[col][r]])
          /\ \A r \in 1..NRows(X_train) : \A t \in 1..NRows(X_test) :
                X_train.cols[col][r] = X_test.cols[col][t] =>
                   X_train'.cols[col][r] = X_test'.cols[col][t]]_vars

\* the loop has encoded a column whose training rows were 'Missing', 'TA' and
\* whose test rows were 'TA', 'Missing': the test rows hold 1, 0
C12_Witness ==
    /\ pc = "encode" /\ encoded = <<"q_NA">> /\ calls = <<"q">>
    /\ raw_train.cols["q"] = <<NaN, Str("TA")>>
    /\ raw_test.cols["q"] = <<Str("TA"), NaN>>
    /\ X_train.cols["q_NA"] = <<Num(0), Num(1)>>
    /\ X_test.cols["q_NA"] = <<Num(1), Num(0)>>

(***************************************************************************)
(* The evaluation cell.                                                    *)
(***************************************************************************)
\* this step is the evaluation cell
Evaluated == pc = "encode" /\ pc' \in {"done", "failed"}

\* a test row holds no number in a feature column
UnseenInTest == \E c \in Range(encoded) : \E r \in 1..NRows(X_test) :
                    isnull(X_test.cols[c][r])

\* C13: Unseen category.  A test row whose value is no key of the mapping
\* gets no number from the encoding loop, and the evaluation cell run on
\* such a row ends with an exception and prints no test MSE.
C13_UnseenCategory ==
    [][/\ \A col \in DerivedColumns : Encoded(col) =>
             \A r \in 1..NRows(X_test) :
                X_test.cols[col][r] \notin DOMAIN labels_dict' =>
                   X_test'.cols[col][r].kind # "num"
       /\ (Evaluated /\ UnseenInTest) =>
             /\ pc' = "failed" /\ err' = "ValueError"
             /\ Len(printed') <= 1]_vars

\* the training rows held 'Gd' and the test row 'TA': the loop left the test
\* row without a number, and the cell failed after printing the training MSE
C13_Witness ==
    /\ calls = <<"q">> /\ encoded = <<"q_NA">>
    /\ raw_train.cols["q"] = <<Str("Gd"), Str("Gd")>>
    /\ raw_test.cols["q"] = <<Str("TA")>>
    /\ X_test.cols["q_NA"] = <<NaN>>
    /\ pc = "failed" /\ err = "ValueError"
    /\ Len(printed) = 1

\* C14, as stated: the evaluation cell run on a training or a test frame
\* without rows ends with an exception and reports no MSE.
C14_Original ==
    [][(Evaluated /\ (NRows(X_train) = 0 \/ NRows(X_test) = 0)) =>
          /\ pc' = "failed" /\ err' = "ValueError"
          /\ printed' = <<>>]_vars

\* C14, amended: the evaluation cell run on a training or a test frame
\* without rows ends with an exception.  With no training row it has printed
\* no MSE; with training rows and no test row it has printed the training
\* MSE, and no test MSE.
C14_EmptyInput ==
    [][(Evaluated /\ (NRows(X_train) = 0 \/ NRows(X_test) = 0)) =>
          /\ pc' = "failed" /\ err' = "ValueError"
          /\ NRows(X_train) = 0 => printed' = <<>>
          /\ NRows(X_train) > 0 =>
                /\ Len(printed') = 1
                /\ printed'[1].den = NRows(X_train)]_vars

\* the cell failed on a test frame without rows, after printing the MSE of
\* the two training rows
C14_Witness ==
    /\ pc = "failed" /\ err = "ValueError"
    /\ encoded # <<>>
    /\ NRows(X_test) = 0 /\ NRows(X_train) = 2
    /\ Len(printed) = 1 /\ printed[1].den = 2

(***************************************************************************)
(* From the raw column to the numbers.                                     *)
(***************************************************************************)
\* the value the derived column holds for a raw value
Filled(x) == IF isnull(x) THEN Missing ELSE x

\* the number of the different values a column holds before the first
\* appearance of the value of row r
SeenBefore(values, r) ==
    Cardinality({values[j] : j \in 1..(FirstSeen(values, values[r]) - 1)})

\* C15: End-to-end scenario.  After one call impute_na(v) and the encoding of
\* v+'_NA', a training row holds i-1 when its value ('Missing' for a missing
\* one) is the i-th different value of the column in row order, and the
\* mapping gives that value i-1; so a training column category, missing,
\* other category becomes 0, 1, 2 under the mapping first category: 0,
\* 'Missing': 1, second category: 2.
C15_EndToEnd ==
    (pc = "encode" /\ Len(calls) = 1 /\ encoded = <<Derived(calls[1])>>) =>
        LET v == calls[1]
            filled == [r \in 1..NRows(raw_train) |-> Filled(raw_train.cols[v][r])]
            column == X_train.cols[Derived(v)]
        IN /\ \A r \in 1..NRows(raw_train) :
                 /\ column[r] = Num(SeenBefore(filled, r))
                 /\ labels_dict[filled[r]] = SeenBefore(filled, r)
           /\ \A a, b \in Range(raw_train.cols[v]) \ {NaN, Missing} :
                 (a # b /\ raw_train.cols[v] = <<a, NaN, b>>) =>
                    /\ column = <<Num(0), Num(1), Num(2)>>
                    /\ DOMAIN labels_dict = {a, Missing, b}
                    /\ labels_dict[a] = 0 /\ labels_dict[Missing] = 1
                    /\ labels_dict[b] = 2

\* the scenario of the specification: q = 'Gd', missing, 'TA'
C15_Witness ==
    /\ pc = "encode" /\ calls = <<"q">> /\ encoded = <<"q_NA">>
    /\ raw_train.cols["q"] = <<Str("Gd"), NaN, Str("TA")>>
    /\ X_train.cols["q_NA"] = <<Num(0), Num(1), Num(2)>>
    /\ labels_dict[Str("Gd")] = 0 /\ labels_dict[Missing] = 1
    /\ labels_dict[Str("TA")] = 2

(***************************************************************************)
(* Two runs of the loop on the same training frame.                        *)
(***************************************************************************)
\* other test frames holding the column: one row, with a label no training
\* row has or with a missing value
AltTests(col) ==
    {[index |-> SubSeq(TestLabels, 1, 1), cols |-> [c \in {col} |-> <<x>>]] :
        x \in {Str("Ex"), NaN}}

\* C16: Encoding determinism.  The iteration of the loop run on the same
\* training frame and any other test frame builds the mapping the step
\* built, and encodes the training column the same way: the mapping depends
\* on the training frame only.
C16_EncodingDeterminism ==
    [][\A col \in DerivedColumns : Encoded(col) =>
          \A test \in AltTests(col) :
             \A run \in {EncodeStep(X_train, test, col)} :
                run.dict = labels_dict' /\ run.train = X_train']_vars

\* the loop has numbered two training labels while the test frame held a
\* value that is none of them
C16_Witness ==
    /\ pc = "encode" /\ encoded = <<"q_NA">>
    /\ X_train.cols["q_NA"] = <<Num(0), Num(1)>>
    /\ NRows(X_test) = 2
    /\ X_test.cols["q_NA"] = <<NaN, Num(1)>>

(***************************************************************************)
(* The two printed errors.                                                 *)
(***************************************************************************)
\* the prediction of the fitted regression for row r of the frame
Predicted(df, r) ==
    linreg.intercept
    + Sum([c \in Range(encoded) |-> linreg.coef[c] * df.cols[c][r].n], Range(encoded))

\* the sum over the rows of the frame of (predicted - actual) squared
SquaredError(df, actual) ==
    Sum([r \in 1..NRows(df) |->
            (Predicted(df, r) - actual[r]) * (Predicted(df, r) - actual[r])],
        1..NRows(df))

\* C17: the evaluation cell that completes has printed two values, the
\* training MSE and then the test MSE; each is the mean, over the rows of its
\* own partition, of the squared difference of the predicted and the actual
\* price, and each is non-negative.
C17_TwoErrors ==
    pc = "done" =>
        /\ Len(printed) = 2
        /\ NRows(X_train) > 0 /\ NRows(X_test) > 0
        /\ printed[1] = [num |-> SquaredError(X_train, y_train), den |-> NRows(X_train)]
        /\ printed[2] = [num |-> SquaredError(X_test, y_test), den |-> NRows(X_test)]
        /\ \A i \in 1..2 : printed[i].num >= 0 /\ printed[i].den > 0

\* the cell completed on two training rows and two test rows, with a
\* positive training MSE and a test MSE positive and different from it
C17_Witness ==
    /\ pc = "done" /\ Len(printed) = 2
    /\ NRows(X_train) = 2 /\ NRows(X_test) = 2
    /\ printed[1].num > 0 /\ printed[2].num > 0
    /\ printed[1].num # printed[2].num
    /\ \E c \in Range(encoded) : linreg.coef[c] # 0

(***************************************************************************)
(* 'Missing' as a key of the mapping.                                      *)
(***************************************************************************)
\* this step is the first encoding of v+'_NA', and column v still holds
\* what the call impute_na(v) read
EncodedFrom(v) ==
    /\ Encoded(Derived(v))
    /\ Derived(v) \notin Range(encoded) /\ v \notin Range(encoded)
    /\ ImputedBefore(v)

\* a training row of the column is missing, or holds 'Missing' already
TrainHasMissing(v) ==
    \E r \in 1..NRows(X_train) : X_train.cols[v][r] \in {NaN, Missing}

\* C18: 'Missing' is a key of the mapping built for v+'_NA' exactly when a
\* training row of v was missing or held 'Missing' already.  So when no
\* training row was and a test row is missing, the test row's imputed value
\* 'Missing' is given no number.
C18_MissingKey ==
    [][\A v \in RawNames : EncodedFrom(v) =>
          /\ Missing \in DOMAIN labels_dict' <=> TrainHasMissing(v)
          /\ ~TrainHasMissing(v) =>
                \A r \in 1..NRows(X_test) : isnull(X_test.cols[v][r]) =>
                   /\ X_test.cols[Derived(v)][r] = Missing
                   /\ X_test'.cols[Derived(v)][r] = NaN]_vars

\* the training rows held 'Gd' and 'TA', the test row was missing: the
\* mapping has no key 'Missing' and the test row no number
C18_Witness ==
    /\ pc = "encode" /\ calls = <<"q">> /\ encoded = <<"q_NA">>
    /\ raw_train.cols["q"] = <<Str("Gd"), Str("TA")>>
    /\ raw_test.cols["q"] = <<NaN>>
    /\ Missing \notin DOMAIN labels_dict
    /\ X_test.cols["q_NA"] = <<NaN>>

(***************************************************************************)
(* The two writes of a call.                                               *)
(***************************************************************************)
\* the step wrote into the frame the derived column of v
Derives(df, after, v) ==
    /\ Derived(v) \in Columns(after)
    /\ after.index = df.index
    /\ \A r \in 1..NRows(df) : after.cols[Derived(v)][r] = Filled(df.cols[v][r])
    /\ \A c \in Columns(df) \ {Derived(v)} : Untouched(df, after, c)

\* C19: impute_na writes the training frame before the test frame and is
\* not atomic.  A call for a column the training frame lacks fails with both
\* frames as they were; a call for a column the training frame has and the
\* test frame lacks fails with the derived column written into the training
\* frame and the test frame as it was.
C19_TrainBeforeTest ==
    [][\A v \in RawNames : Called(v) =>
          /\ v \notin Columns(X_train) =>
                /\ pc' = "failed" /\ err' = "KeyError"
                /\ X_train' = X_train /\ X_test' = X_test
          /\ (v \in Columns(X_train) /\ v \notin Columns(X_test)) =>
                /\ pc' = "failed" /\ err' = "KeyError"
                /\ Derives(X_train, X_train', v)
                /\ X_test' = X_test]_vars

\* the only call failed on the test frame: the training frame has gained the
\* derived column with a 'Missing' in it, the test frame is the raw one
C19_Witness ==
    /\ pc = "failed" /\ err = "KeyError" /\ calls = <<"q">>
    /\ "q_NA" \in Columns(X_train) \ Columns(raw_train)
    /\ Missing \in Range(X_train.cols["q_NA"])
    /\ Missing \notin Range(raw_train.cols["q"])
    /\ X_test = raw_test /\ Columns(X_test) = {"g"}
    /\ NaN \in Range(X_test.cols["g"])

\* C20: a call impute_na(v) on a frame that already has a column v+'_NA'
\* overwrites that column with the derived values and adds no column: the
\* frame has the same columns, as many as before, after the write.
C20_Overwrite ==
    [][\A v \in RawNames :
          /\ (WroteTrain(v) /\ Derived(v) \in Columns(X_train)) =>
                /\ Derives(X_train, X_train', v)
                /\ Columns(X_train') = Columns(X_train)
                /\ NCols(X_train') = NCols(X_train)
          /\ (Returned(v) /\ Derived(v) \in Columns(X_test)) =>
                /\ Derives(X_test, X_test', v)
                /\ Columns(X_test') = Columns(X_test)
                /\ NCols(X_test') = NCols(X_test)]_vars

\* the raw frames had a column q_NA holding other values than q: after the
\* call for q both frames have the columns they had, and q_NA holds the
\* values of q
C20_Witness ==
    /\ pc = "impute" /\ calls = <<"q">>
    /\ Columns(X_train) = Columns(raw_train) /\ Columns(X_test) = Columns(raw_test)
    /\ raw_train.cols["q"] = <<NaN>>
    /\ raw_train.cols["q_NA"] = <<Str("TA")>>
    /\ X_train.cols["q_NA"] = <<Missing>>
    /\ raw_test.cols["q_NA"] = <<Str("TA")>>
    /\ X_test.cols["q_NA"] = <<Str("Gd")>>

(***************************************************************************)
(* The loop run again on an encoded column.                                *)
(***************************************************************************)
\* this step encodes a column the loop has encoded before
EncodedAgain(col) == Encoded(col) /\ col \in Range(encoded)

\* C21: the loop run again on a column it has already encoded changes
\* nothing.  The mapping rebuilt from the encoded training column has the
\* keys 0..n-1, n being the number of different values of the column, and
\* sends each to itself; every training cell and every test cell holding a
\* number keeps it, and both frames are as they were.
C21_EncodeAgain ==
    [][\A col \in DerivedColumns : EncodedAgain(col) =>
          LET n == Cardinality(Range(X_train.cols[col]))
          IN /\ DOMAIN labels_dict' = {Num(i) : i \in 0..(n - 1)}
             /\ \A i \in 0..(n - 1) : labels_dict'[Num(i)] = i
             /\ \A r \in 1..NRows(X_train) :
                   /\ X_train.cols[col][r].kind = "num"
                   /\ X_train'.cols[col][r] = X_train.cols[col][r]
             /\ \A r \in 1..NRows(X_test) :
                   X_test.cols[col][r].kind = "num" =>
                      X_test'.cols[col][r] = X_test.cols[col][r]
             /\ X_train' = X_train /\ X_test' = X_test]_vars

\* the loop has run twice on q_NA, whose training rows were 'Gd', 'TA', 'Gd'
\* and whose test row was 'TA': the second mapping is 0: 0, 1: 1 and the
\* rows hold 0, 1, 0 and 1 as after the first run
C21_Witness ==
    /\ pc = "encode" /\ calls = <<"q">> /\ encoded = <<"q_NA", "q_NA">>
    /\ raw_train.cols["q"] = <<Str("Gd"), Str("TA"), Str("Gd")>>
    /\ raw_test.cols["q"] = <<Str("TA")>>
    /\ DOMAIN labels_dict = {Num(0), Num(1)}
    /\ labels_dict[Num(0)] = 0 /\ labels_dict[Num(1)] = 1
    /\ X_train.cols["q_NA"] = <<Num(0), Num(1), Num(0)>>
    /\ X_test.cols["q_NA"] = <<Num(1)>>

====
